---------------------------- MODULE Spec2Model ----------------------------
(***************************************************************************)
(* A model of nucleus/io/sam_reader.cc: the aux-field decoder              *)
(* (ParseAuxFields), the record converter (ConvertToPb), the iteration     *)
(* engine (SamIterableBase::Next with SamReader::KeepRead) and the reader  *)
(* life cycle (FromFile, Iterate, Query, Close, ~SamReader).               *)
(*                                                                         *)
(* Three machines share this module, each with its own specification:     *)
(*   SpecAux / SpecConv : one ConvertToPb call, ParseAuxFields one loop    *)
(*                        iteration per step, over byte buffers / records  *)
(*   SpecIter           : Next() calls of one iterable over a raw cursor   *)
(*   SpecReader         : FromFile / Iterate / Query / Close / destroy     *)
(* Offsets into a record's data are 0-based as in the C++ code; the TLA+   *)
(* sequence `data` holds byte k of the buffer at data[k+1].                *)
(***************************************************************************)
EXTENDS Integers, Sequences, FiniteSets, TLC

(***************************************************************************)
(* Bounds of the model.                                                    *)
(***************************************************************************)
\* Largest number of aux fields concatenated into one aux region.
MaxFields == 2
\* Largest number of raw items a cursor delivers before its end of stream.
MaxCursor == 3
\* Number of states of the sampler's generator.
GenModulus == 8
\* Largest number of FromFile calls.
MaxOpens == 2
\* Largest number of iterables created from the readers.
MaxIterables == 2
\* Cursor positions further than this outside the buffer are identified.
FarLimit == 12
\* Number of contigs in the header's target_name table.
NTargets == 2

(***************************************************************************)
(* Bytes and fixed-width integers.                                         *)
(***************************************************************************)
\* ASCII codes of the characters the decoder switches on.
Ch == [c \in {"A", "B", "C", "H", "I", "S", "Z", "c", "f", "i", "s",
              "X", "Y", "1", "h", "r", "?"} |->
        CASE c = "A" -> 65  [] c = "B" -> 66  [] c = "C" -> 67
          [] c = "H" -> 72  [] c = "I" -> 73  [] c = "S" -> 83
          [] c = "Z" -> 90  [] c = "c" -> 99  [] c = "f" -> 102
          [] c = "i" -> 105 [] c = "s" -> 115 [] c = "X" -> 88
          [] c = "Y" -> 89  [] c = "1" -> 49  [] c = "h" -> 104
          [] c = "r" -> 114 [] c = "?" -> 63]

\* Largest and smallest value of a C++ int (32 bits, two's complement).
IntMax == 2147483647
IntMin == (-2147483647) - 1

\* The bytes a read outside the record's allocation may find there.
Garbage == {0, Ch["A"], Ch["B"], 255}

\* *p for p = data + off: the buffer's byte inside the allocation, and
\* whatever lies in memory (g) outside of it.
Mem(d, off, g) == IF off >= 0 /\ off < Len(d) THEN d[off + 1] ELSE g

\* The offsets of a set that lie outside the allocation [0, Len(d)).
OutOfBuffer(d, offs) == {o \in offs : o < 0 \/ o >= Len(d)}

\* le_to_u32 followed by the conversion to `const int`: four little-endian
\* bytes as a two's complement 32-bit value.
LeToInt32(b0, b1, b2, b3) ==
  b0 + 256 * b1 + 65536 * b2
     + 16777216 * (IF b3 >= 128 THEN b3 - 256 ELSE b3)

\* le_to_float: the four little-endian bytes of the IEEE-754 bit pattern,
\* kept as the (signed 32-bit) pattern itself.
LeToFloat(b0, b1, b2, b3) == LeToInt32(b0, b1, b2, b3)

\* Identify cursor positions far outside the buffer (see FarLimit).
Clamp(d, x) ==
  IF x < -FarLimit THEN -FarLimit
  ELSE IF x > Len(d) + FarLimit THEN Len(d) + FarLimit
  ELSE x

\* Gets the size in bytes for a SAM/BAM aux tag based on its declared type.
HtslibAuxSize(type) ==
  CASE type \in {Ch["A"], Ch["c"], Ch["C"]} -> 1
    [] type \in {Ch["s"], Ch["S"]}          -> 2
    [] type \in {Ch["f"], Ch["i"], Ch["I"]} -> 4
    [] OTHER                                -> -1

\* n_elements * element_size in 32-bit int arithmetic, wrapped around.
WrapMul(n, e) ==
  CASE e = 1 -> n
    [] e = 2 -> 2 * (IF n < -1073741824 THEN (n + IntMax) + 1
                     ELSE IF n >= 1073741824 THEN (n - IntMax) - 1
                     ELSE n)
    [] e = 4 -> LET x == n % 1073741824
                IN  4 * (IF x >= 536870912 THEN x - 1073741824 ELSE x)

\* 4 + p in 32-bit int arithmetic, wrapped around.
WrapAdd4(p) == IF p > IntMax - 4 THEN ((p - IntMax) + 3) + IntMin ELSE p + 4

\* Whether 4 + n * e leaves the range of int (signed overflow: undefined).
Overflows(n, e) ==
  \/ n > (IntMax - 4) \div e
  \/ n < (-(IntMax \div e)) - 1

\* The displacement `4 + n_elements * element_size` added to the cursor.
\* Without overflow it is the exact value.  With signed overflow the build
\* either wraps at 32 bits (wrap = TRUE) or computes the exact value in the
\* 64-bit pointer arithmetic (wrap = FALSE), which lands far outside.
SkipBytes(d, n, e, wrap) ==
  IF ~Overflows(n, e) THEN 4 + n * e
  ELSE IF wrap THEN WrapAdd4(WrapMul(n, e))
  ELSE IF n > 0 THEN Len(d) + 2 * FarLimit ELSE -(2 * FarLimit)

(***************************************************************************)
(* The htslib record (bam1_t), the header (bam_hdr_t) and the output Read. *)
(***************************************************************************)
\* Flag bits of bam1_core_t::flag tested by ConvertToPb.
BAM_FPAIRED == 1
BAM_FPROPER_PAIR == 2
BAM_FUNMAP == 4
BAM_FMUNMAP == 8
BAM_FREVERSE == 16
BAM_FMREVERSE == 32
BAM_FREAD1 == 64
BAM_FSECONDARY == 256
BAM_FQCFAIL == 512
BAM_FDUP == 1024
BAM_FSUPPLEMENTARY == 2048

\* c->flag & bit
HasFlag(flag, bit) == (flag \div bit) % 2 = 1

\* The header: its contig-name table h->target_name[0 .. n_targets-1].
Header == [target_name |-> [i \in 1..NTargets |-> <<"chr", i>>]]

\* h->target_name[tid].  An index outside the table reads whatever pointer
\* lies there.
TargetName(h, tid) ==
  IF tid >= 0 /\ tid < Len(h.target_name)
  THEN h.target_name[tid + 1]
  ELSE <<"garbage", 0>>

\* Offsets of the variable-length parts inside b->data (bam_get_cigar,
\* bam_get_seq, bam_get_qual, bam_get_aux).
CigarOff(b) == b.l_qname
SeqOff(b) == CigarOff(b) + 4 * b.n_cigar
QualOff(b) == SeqOff(b) + ((b.l_qseq + 1) \div 2)
AuxOff(b) == QualOff(b) + b.l_qseq

\* bam_get_qname(b) read as a C string: the bytes up to the first NUL.
Qname(b) ==
  LET stops == {q \in 0..Len(b.data) : q = Len(b.data) \/ b.data[q + 1] = 0}
      q0 == CHOOSE q \in stops : \A r \in stops : q <= r
  IN  SubSeq(b.data, 1, q0)

\* seq_nt16_str, the 16-entry base lookup table.
seq_nt16_str ==
  <<"=", "A", "C", "M", "G", "R", "S", "V", "T", "W", "Y", "H", "K", "D", "B", "N">>

\* bam_seqi(seq, i): base i of the packed 4-bit sequence.
bam_seqi(b, i) ==
  LET byte == b.data[SeqOff(b) + (i \div 2) + 1]
  IN  IF i % 2 = 0 THEN byte \div 16 ELSE byte % 16

\* kHtslibCigarToProto, the op-code table.
kHtslibCigarToProto ==
  <<"ALIGNMENT_MATCH", "INSERT", "DELETE", "SKIP", "CLIP_SOFT", "CLIP_HARD",
    "PAD", "SEQUENCE_MATCH", "SEQUENCE_MISMATCH">>

\* cigar[i] as a 32-bit little-endian word (lengths below 2^27 here).
CigarWord(b, i) ==
  LET o == CigarOff(b) + 4 * i
  IN  b.data[o + 1] + 256 * b.data[o + 2] + 65536 * b.data[o + 3]
        + 16777216 * b.data[o + 4]

\* One CigarUnit: bam_cigar_op is the low 4 bits, bam_cigar_oplen the rest.
CigarUnit(b, i) ==
  [operation |-> kHtslibCigarToProto[(CigarWord(b, i) % 16) + 1],
   operation_length |-> CigarWord(b, i) \div 16]

\* read_message->Clear(): the empty Read.
EmptyRead ==
  [fragment_name |-> <<>>, fragment_length |-> 0,
   proper_placement |-> FALSE, duplicate_fragment |-> FALSE,
   failed_vendor_quality_checks |-> FALSE, secondary_alignment |-> FALSE,
   supplementary_alignment |-> FALSE, read_number |-> 0, number_reads |-> 0,
   aligned_sequence |-> <<>>, aligned_quality |-> <<>>,
   alignment |-> <<>>, next_mate_position |-> <<>>, info |-> <<>>]

\* Name, length, flag-derived booleans and pairing information.
BasicFields(b) ==
  LET paired == HasFlag(b.flag, BAM_FPAIRED)
  IN  [EmptyRead EXCEPT
        !.fragment_name = Qname(b),
        !.fragment_length = b.isize,
        !.proper_placement = HasFlag(b.flag, BAM_FPROPER_PAIR),
        !.duplicate_fragment = HasFlag(b.flag, BAM_FDUP),
        !.failed_vendor_quality_checks = HasFlag(b.flag, BAM_FQCFAIL),
        !.secondary_alignment = HasFlag(b.flag, BAM_FSECONDARY),
        !.supplementary_alignment = HasFlag(b.flag, BAM_FSUPPLEMENTARY),
        !.read_number = IF HasFlag(b.flag, BAM_FREAD1) \/ ~paired THEN 0 ELSE 1,
        !.number_reads = IF paired THEN 2 ELSE 1]

\* The seq and qual fields, when a sequence length is declared.
AlignedSequence(b) ==
  IF b.l_qseq = 0 THEN <<>>
  ELSE [i \in 1..b.l_qseq |-> seq_nt16_str[bam_seqi(b, i - 1) + 1]]

AlignedQuality(b) ==
  IF b.l_qseq = 0 \/ b.data[QualOff(b) + 1] = 255 THEN <<>>
  ELSE [i \in 1..b.l_qseq |-> b.data[QualOff(b) + i]]

\* Whether ConvertToPb creates read_message.alignment.
HasAlignment(b) == ~HasFlag(b.flag, BAM_FUNMAP)

\* A converter that also leaves the Position out for reference index 0.
HasPosition_FromIndexOne(b) == b.tid > 0

\* Whether ConvertToPb creates alignment.position.
HasPosition(b) == b.tid >= 0

\* The LinearAlignment of a mapped record; position is <<>> when absent.
Alignment(h, b) ==
  [mapping_quality |-> b.qual,
   cigar |-> [i \in 1..b.n_cigar |-> CigarUnit(b, i - 1)],
   position |->
     IF HasPosition(b)
     THEN <<[reference_name |-> TargetName(h, b.tid), position |-> b.pos,
             reverse_strand |-> HasFlag(b.flag, BAM_FREVERSE)]>>
     ELSE <<>>]

\* A converter that creates the mate position for every paired record.
HasMatePosition_IgnoringMateUnmapped(b) == HasFlag(b.flag, BAM_FPAIRED)

\* Whether ConvertToPb creates read_message.next_mate_position.
HasMatePosition(b) ==
  HasFlag(b.flag, BAM_FPAIRED) /\ ~HasFlag(b.flag, BAM_FMUNMAP)

\* A converter that accepts mate reference index -1.
MateInconsistent_BelowMinusOne(b) ==
  HasFlag(b.flag, BAM_FPAIRED) /\ ~HasFlag(b.flag, BAM_FMUNMAP) /\ b.mtid < -1

\* The flag/data inconsistency ConvertToPb rejects.
MateInconsistent(b) == HasMatePosition(b) /\ b.mtid < 0

\* mutable_next_mate_position() right after its creation.
DefaultPosition ==
  [reference_name |-> <<"", 0>>, position |-> 0, reverse_strand |-> FALSE]

MatePosition(h, b) ==
  [reference_name |-> TargetName(h, b.mtid), position |-> b.mpos,
   reverse_strand |-> HasFlag(b.flag, BAM_FMREVERSE)]

\* Whether ConvertToPb indexes h->target_name outside the table.
TargetOutOfRange(h, b) ==
  \/ HasAlignment(b) /\ HasPosition(b) /\ b.tid >= Len(h.target_name)
  \/ HasMatePosition(b) /\ b.mtid >= Len(h.target_name)

\* ConvertToPb up to the call of ParseAuxFields: the status it has reached
\* ("OK": goes on to the aux fields) and the message built so far.  An index
\* outside target_name either crashes the process (ub = "crash") or yields
\* a garbage name (ub = "garbage").
ConvertHead(h, b, ub) ==
  LET r1 == [BasicFields(b) EXCEPT
               !.aligned_sequence = AlignedSequence(b),
               !.aligned_quality = AlignedQuality(b)]
      r2 == IF HasAlignment(b)
            THEN [r1 EXCEPT !.alignment = <<Alignment(h, b)>>]
            ELSE r1
  IN  IF TargetOutOfRange(h, b) /\ ub = "crash"
        THEN [status |-> "crash", out |-> r2]
      ELSE IF MateInconsistent(b)
        THEN [status |-> "DataLoss",
              out |-> [r2 EXCEPT !.next_mate_position = <<DefaultPosition>>]]
      ELSE IF HasMatePosition(b)
        THEN [status |-> "OK",
              out |-> [r2 EXCEPT !.next_mate_position = <<MatePosition(h, b)>>]]
      ELSE [status |-> "OK", out |-> r2]

(***************************************************************************)
(* ParseAuxFields: one iteration of its decoding loop.                     *)
(***************************************************************************)
\* The typed values SetInfoField stores.
StrValue(bytes) == [kind |-> "string", num |-> 0, str |-> bytes]
IntValue(n) == [kind |-> "int", num |-> n, str |-> <<>>]
FloatValue(bits) == [kind |-> "float", num |-> bits, str |-> <<>>]

\* SetInfoField(tag, value, read_message): the message's tag -> value map.
SetInfoField(info, tag, value) ==
  [t \in (DOMAIN info) \cup {tag} |-> IF t = tag THEN value ELSE info[t]]

\* bam_aux2i(s - 1) stored into `const int value`: the integer of the given
\* type whose little-endian bytes start at offset p.
AuxToInt(d, type, p, g) ==
  LET b0 == Mem(d, p, g)
      b1 == Mem(d, p + 1, g)
      b2 == Mem(d, p + 2, g)
      b3 == Mem(d, p + 3, g)
  IN  CASE type = Ch["c"] -> IF b0 >= 128 THEN b0 - 256 ELSE b0
        [] type = Ch["C"] -> b0
        [] type = Ch["s"] -> b0 + 256 * (IF b1 >= 128 THEN b1 - 256 ELSE b1)
        [] type = Ch["S"] -> b0 + 256 * b1
        [] type \in {Ch["i"], Ch["I"]} -> LeToInt32(b0, b1, b2, b3)

\* for (; s < end && *s; ++s) {}: where the scan from offset p stops, the
\* offset of the first NUL or the end of the buffer.
ScanString(d, p, g) ==
  LET stops == {q \in p..Len(d) : q = Len(d) \/ Mem(d, q, g) = 0}
  IN  CHOOSE q \in stops : \A r \in stops : q <= r

\* The results of an iteration: go on at cursor s, or return an error.
Continue(d, s, reads, emit) ==
  [kind |-> "cont", s |-> Clamp(d, s), reads |-> reads, emit |-> emit,
   err |-> "OK"]
Fail(s, reads, msg) ==
  [kind |-> "err", s |-> s, reads |-> reads, emit |-> <<>>, err |-> msg]

\* case 'A': a single character string.
AuxFieldA(d, tag, p, hdr, g) ==
  Continue(d, p + 1, hdr \cup {p}, <<<<tag, StrValue(<<Mem(d, p, g)>>)>>>>)

\* case 'C', 'c', 'S', 's', 'I', 'i': the byte-sized integers.
AuxFieldInt(d, tag, type, p, hdr, g) ==
  LET size == HtslibAuxSize(type)
  IN  IF size < 0 \/ Len(d) - p < size
      THEN Fail(p, hdr, "Malformed tag")
      ELSE Continue(d, p + size, hdr \cup (p..(p + size - 1)),
                    <<<<tag, IntValue(AuxToInt(d, type, p, g))>>>>)

\* case 'f': a 4-byte floating point.
AuxFieldFloat(d, tag, p, hdr, g) ==
  IF Len(d) - p < 4
  THEN Fail(p, hdr, "Malformed tag")
  ELSE Continue(d, p + 4, hdr \cup (p..(p + 3)),
                <<<<tag, FloatValue(LeToFloat(Mem(d, p, g), Mem(d, p + 1, g),
                                               Mem(d, p + 2, g), Mem(d, p + 3, g)))>>>>)

\* case 'Z', 'H': null-terminated strings; H is skipped.
AuxFieldString(d, tag, type, p, hdr, g) ==
  LET q == ScanString(d, p, g)
  IN  IF q >= Len(d)
      THEN Fail(q, hdr \cup (p..(Len(d) - 1)), "Malformed tag")
      ELSE Continue(d, q + 1, hdr \cup (p..q),
                    IF type = Ch["Z"]
                    THEN <<<<tag, StrValue([i \in 1..(q - p) |-> Mem(d, p + i - 1, g)])>>>>
                    ELSE <<>>)

\* case 'B': an array of atomic types, skipped without decoding.
AuxFieldB(d, tag, p, hdr, g, wrap) ==
  LET sub_type == Mem(d, p, g)
      element_size == HtslibAuxSize(sub_type)
      p2 == p + 1
      n_elements == LeToInt32(Mem(d, p2, g), Mem(d, p2 + 1, g),
                              Mem(d, p2 + 2, g), Mem(d, p2 + 3, g))
  IN  IF element_size < 0
        THEN Fail(p2, hdr \cup {p}, "element_size == 0 for tag")
      ELSE IF Len(d) - p2 < 4
        THEN Fail(p2, hdr \cup {p}, "data too short for tag")
      ELSE IF n_elements = 0
        THEN Fail(p2, hdr \cup {p} \cup (p2..(p2 + 3)), "n_elements is zero")
      ELSE Continue(d, p2 + SkipBytes(d, n_elements, element_size, wrap),
                    hdr \cup {p} \cup (p2..(p2 + 3)), <<>>)

\* The body of `while (end - s >= 4)` with the cursor at offset s0: the
\* bytes it reads, and either the next cursor with the value it emits or
\* the DataLoss error it returns.
AuxIter(d, s0, g, wrap) ==
  LET tag == <<Mem(d, s0, g), Mem(d, s0 + 1, g)>>
      type == Mem(d, s0 + 2, g)
      p == s0 + 3
      hdr == {s0, s0 + 1, s0 + 2}
  IN  CASE type = Ch["A"] -> AuxFieldA(d, tag, p, hdr, g)
        [] type \in {Ch["C"], Ch["c"], Ch["S"], Ch["s"], Ch["I"], Ch["i"]} ->
             AuxFieldInt(d, tag, type, p, hdr, g)
        [] type = Ch["f"] -> AuxFieldFloat(d, tag, p, hdr, g)
        [] type \in {Ch["Z"], Ch["H"]} -> AuxFieldString(d, tag, type, p, hdr, g)
        [] type = Ch["B"] -> AuxFieldB(d, tag, p, hdr, g, wrap)
        [] OTHER -> Fail(p, hdr, "Unknown tag")

(***************************************************************************)
(* State.                                                                  *)
(***************************************************************************)
VARIABLES
  \* -- one ConvertToPb call --
  b,          \* the bam1_t record: core fields and the data buffer
  opt,        \* options.aux_field_handling()
  pc,         \* position inside ConvertToPb / ParseAuxFields
  s,          \* ParseAuxFields' cursor, as an offset into b.data
  out,        \* read_message
  status,     \* what ConvertToPb returned ("none" while it runs)
  auxStatus,  \* what ParseAuxFields returned ("none" before it returns)
  counter,    \* ConvertToPb's static log-throttling counter
  reads,      \* the offsets the latest loop iteration dereferenced
  infoPrev,   \* read_message.info as the latest loop iteration found it
  nIter,      \* loop iterations entered so far (counted up to MaxFields + 1)
  fields,     \* the fields the aux region was written from, with the
              \* value each one stands for
  truncN,     \* how many required trailing bytes the last field is missing
  \* -- one iterable (SamIterableBase) and the reader's filter --
  itpc,       \* position inside Next(): "idle" between calls, "pull" at
              \* the top of its do-loop, "convert" inside ConvertToPb;
              \* "direct" when ConvertToPb is called on its own
  cursor,     \* what next_sam_record() will deliver, in order
  alive,      \* the iterable's reader still exists (IsAlive)
  has_read_requirements,  \* options_.has_read_requirements()
  downsample_fraction,    \* options_.downsample_fraction(), in units of
                          \* 1 / GenModulus
  seed,       \* options.random_seed()
  gen,        \* the state of sampler_'s generator
  result,     \* what the latest Next() returned
  lastPull,   \* what next_sam_record() last returned inside the latest
              \* Next(): "none", "eos" (-1), "error" (< -1) or "record"
  pulled,     \* every raw item next_sam_record() delivered so far
  yielded,    \* the positions in `pulled` of the records Next() yielded
  decisions,  \* KeepRead's answers so far, in order
  nKeepCalls, \* how often sampler_.Keep() ran
  afterStop,  \* a Next() was called after one that yielded no record
  \* -- one SamReader and the htslib handles it owns --
  reader,     \* "none", "live" (FromFile returned it) or "destroyed"
  fp_,        \* the reader's file handle: 0 is nullptr, 1 the handle
  header_,    \* the reader's header: 0 is nullptr, 1 the header
  idx_,       \* the reader's index: 0 is nullptr, 1 the index
  handles,    \* the state of the file, header and index that the latest
              \* FromFile acquired: "none", "open" or "released"
  released,   \* how often each of them was handed to its release function
  badCalls,   \* the htslib functions called with a null or released handle
  leaked,     \* handles a FromFile acquired and left open without an owner
  nOpens,     \* FromFile calls so far
  nIterables, \* iterables created so far
  crashed,    \* the process has died
  lastOp      \* the latest operation on the reader and its outcome

convVars ==
  <<b, opt, pc, s, out, status, auxStatus, counter, reads, infoPrev, nIter,
    fields, truncN>>

iterVars ==
  <<itpc, cursor, alive, has_read_requirements, downsample_fraction, seed, gen,
    result, lastPull, pulled, yielded, decisions, nKeepCalls, afterStop>>

readerVars ==
  <<reader, fp_, header_, idx_, handles, released, badCalls, leaked, nOpens,
    nIterables, crashed, lastOp>>

vars == <<convVars, iterVars, readerVars>>

(***************************************************************************)
(* Inputs of the conversion machine.                                       *)
(***************************************************************************)
\* The fixed part of a record: core fields and the bytes before the aux
\* region (qname, cigar, packed sequence, qualities).
Bodies ==
  { [l_qname |-> 2, n_cigar |-> 0, l_qseq |-> 0,
     prefix |-> <<Ch["r"], 0>>],
    [l_qname |-> 2, n_cigar |-> 1, l_qseq |-> 2,
     prefix |-> <<Ch["r"], 0, 32, 0, 0, 0, 18, 30, 31>>],
    [l_qname |-> 2, n_cigar |-> 0, l_qseq |-> 1,
     prefix |-> <<Ch["r"], 0, 64, 255>>] }

MakeRecord(body, flag, tid, mtid, aux) ==
  [flag |-> flag, tid |-> tid, mtid |-> mtid, pos |-> 7, mpos |-> 9,
   qual |-> 60, isize |-> 100,
   l_qname |-> body.l_qname, n_cigar |-> body.n_cigar, l_qseq |-> body.l_qseq,
   data |-> body.prefix \o aux]

\* Well-formed encodings of one aux field each, with the number of
\* required bytes that follow the type byte and the (tag, value) pair the
\* field stands for (none for the H and B types, which are skipped).
WellFormedFields ==
  { [bytes |-> <<Ch["X"], Ch["1"], Ch["A"], Ch["h"]>>, payload |-> 1,
     emit |-> <<<<<<Ch["X"], Ch["1"]>>, StrValue(<<Ch["h"]>>)>>>>],
    [bytes |-> <<Ch["X"], Ch["1"], Ch["c"], 251>>, payload |-> 1,
     emit |-> <<<<<<Ch["X"], Ch["1"]>>, IntValue(-5)>>>>],
    [bytes |-> <<Ch["Y"], Ch["1"], Ch["S"], 5, 1>>, payload |-> 2,
     emit |-> <<<<<<Ch["Y"], Ch["1"]>>, IntValue(261)>>>>],
    [bytes |-> <<Ch["X"], Ch["1"], Ch["i"], 5, 0, 0, 0>>, payload |-> 4,
     emit |-> <<<<<<Ch["X"], Ch["1"]>>, IntValue(5)>>>>],
    [bytes |-> <<Ch["Y"], Ch["1"], Ch["I"], 255, 255, 255, 255>>, payload |-> 4,
     emit |-> <<<<<<Ch["Y"], Ch["1"]>>, IntValue(-1)>>>>],
    [bytes |-> <<Ch["X"], Ch["1"], Ch["f"], 0, 0, 128, 63>>, payload |-> 4,
     emit |-> <<<<<<Ch["X"], Ch["1"]>>, FloatValue(1065353216)>>>>],
    [bytes |-> <<Ch["Y"], Ch["1"], Ch["Z"], Ch["h"], Ch["i"], 0>>, payload |-> 3,
     emit |-> <<<<<<Ch["Y"], Ch["1"]>>, StrValue(<<Ch["h"], Ch["i"]>>)>>>>],
    [bytes |-> <<Ch["X"], Ch["1"], Ch["H"], Ch["1"], Ch["A"], 0>>, payload |-> 3,
     emit |-> <<>>],
    [bytes |-> <<Ch["Y"], Ch["1"], Ch["B"], Ch["c"], 2, 0, 0, 0, 7, 8>>, payload |-> 7,
     emit |-> <<>>],
    [bytes |-> <<Ch["X"], Ch["1"], Ch["B"], Ch["s"], 0, 0, 0, 0>>, payload |-> 5,
     emit |-> <<>>] }

\* Encodings no writer produces: an unknown type byte, an unknown array
\* sub-type, array counts with the top bit set, a count whose byte size
\* exceeds 32 bits.
MalformedFields ==
  { [bytes |-> <<Ch["X"], Ch["1"], Ch["?"], 0>>, payload |-> 0, emit |-> <<>>],
    [bytes |-> <<Ch["X"], Ch["1"], Ch["B"], Ch["Z"], 1, 0, 0, 0, 0>>, payload |-> 0,
     emit |-> <<>>],
    [bytes |-> <<Ch["X"], Ch["1"], Ch["B"], Ch["c"], 248, 255, 255, 255>>, payload |-> 0,
     emit |-> <<>>],
    [bytes |-> <<Ch["X"], Ch["1"], Ch["B"], Ch["c"], 247, 255, 255, 255>>, payload |-> 0,
     emit |-> <<>>],
    [bytes |-> <<Ch["X"], Ch["1"], Ch["B"], Ch["c"], 240, 255, 255, 255>>, payload |-> 0,
     emit |-> <<>>],
    [bytes |-> <<Ch["X"], Ch["1"], Ch["B"], Ch["i"], 0, 0, 0, 64>>, payload |-> 0,
     emit |-> <<>>] }

RECURSIVE Concat(_)
Concat(fs) == IF fs = <<>> THEN <<>> ELSE Head(fs).bytes \o Concat(Tail(fs))

FieldSeqs(F) == UNION {[1..n -> F] : n \in 0..MaxFields}

\* Aux regions: up to MaxFields fields of either kind, and every
\* well-formed stream with N > 0 required trailing bytes of its last field
\* removed.  Each comes with its N.
FieldsOf(fs) ==
  [i \in 1..Len(fs) |-> [wf |-> fs[i] \in WellFormedFields, emit |-> fs[i].emit]]

AuxStreams ==
  {[aux |-> Concat(fs), truncN |-> 0, fields |-> FieldsOf(fs)] :
     fs \in FieldSeqs(WellFormedFields \cup MalformedFields)}
  \cup
  UNION {{[aux |-> SubSeq(Concat(fs), 1, Len(Concat(fs)) - n), truncN |-> n,
           fields |-> FieldsOf(fs)] :
            n \in 1..fs[Len(fs)].payload} :
         fs \in FieldSeqs(WellFormedFields) \ {<<>>}}

\* A message left over from an earlier conversion.
StaleRead ==
  [EmptyRead EXCEPT !.fragment_name = <<Ch["?"]>>,
                    !.alignment = <<[mapping_quality |-> 1, cigar |-> <<>>,
                                     position |-> <<>>]>>,
                    !.next_mate_position = <<DefaultPosition>>,
                    !.info = SetInfoField(<<>>, <<Ch["?"], Ch["?"]>>, IntValue(1))]

\* The reader's variables before any FromFile.
NoOp ==
  [op |-> "none", status |-> "none", wasClosed |-> FALSE, fpBefore |-> 0,
   idxBefore |-> 0, iterablesBefore |-> 0, nameKnown |-> FALSE,
   intervalOk |-> FALSE, afterFailedQuery |-> FALSE]

NoReader ==
  /\ reader = "none"
  /\ fp_ = 0
  /\ header_ = 0
  /\ idx_ = 0
  /\ handles = [k \in {"fp", "header", "idx"} |-> "none"]
  /\ released = [k \in {"fp", "header", "idx"} |-> 0]
  /\ badCalls = {}
  /\ leaked = 0
  /\ nOpens = 0
  /\ nIterables = 0
  /\ crashed = FALSE
  /\ lastOp = NoOp

\* The iterable's variables while ConvertToPb is called on its own.
NoIterable ==
  /\ itpc = "direct"
  /\ cursor = <<>>
  /\ alive = TRUE
  /\ has_read_requirements = FALSE
  /\ downsample_fraction = 0
  /\ seed = 0
  /\ gen = 0
  /\ result = "none"
  /\ lastPull = "none"
  /\ pulled = <<>>
  /\ yielded = <<>>
  /\ decisions = <<>>
  /\ nKeepCalls = 0
  /\ afterStop = FALSE

ConvInit(records, options) ==
  /\ NoIterable
  /\ NoReader
  /\ \E r \in records :
       /\ b = r.b
       /\ truncN = r.truncN
       /\ fields = r.fields
  /\ opt \in options
  /\ pc = "start"
  /\ s = 0
  /\ out = StaleRead
  /\ status = "none"
  /\ auxStatus = "none"
  /\ counter = 0
  /\ reads = {}
  /\ infoPrev = <<>>
  /\ nIter = 0

(***************************************************************************)
(* ConvertToPb and ParseAuxFields.                                         *)
(***************************************************************************)
\* What a read outside an allocation does: it kills the process or it
\* returns the bytes that lie there.
UBOutcomes == {"crash", "garbage"}

\* ConvertToPb from its entry to its call of ParseAuxFields, and
\* ParseAuxFields' check of the aux handling option.
ConvertToPb ==
  /\ pc = "start"
  /\ \E ub \in UBOutcomes :
       LET r == ConvertHead(Header, b, ub)
       IN  /\ out' = r.out
           /\ IF r.status # "OK"
                THEN /\ pc' = "done"
                     /\ status' = r.status
                     /\ UNCHANGED <<s, auxStatus>>
              ELSE IF opt # "PARSE_ALL_AUX_FIELDS"
                THEN /\ pc' = "auxret"
                     /\ auxStatus' = "OK"
                     /\ UNCHANGED <<s, status>>
              ELSE /\ pc' = "aux"
                   /\ s' = AuxOff(b)
                   /\ UNCHANGED <<status, auxStatus>>
  /\ UNCHANGED <<b, opt, counter, reads, infoPrev, nIter, fields, truncN>>
  /\ UNCHANGED <<iterVars, readerVars>>

\* The values an iteration emits, stored into the message.
Emit(info, emit) ==
  IF emit = <<>> THEN info ELSE SetInfoField(info, emit[1][1], emit[1][2])

\* One iteration of `while (end - s >= 4)`.
ParseAuxStep ==
  /\ pc = "aux"
  /\ Len(b.data) - s >= 4
  /\ \E g \in Garbage, wrap \in BOOLEAN, ub \in UBOutcomes :
       LET r == AuxIter(b.data, s, g, wrap)
       IN  /\ reads' = r.reads
           /\ infoPrev' = out.info
           /\ nIter' = IF nIter <= MaxFields THEN nIter + 1 ELSE nIter
           /\ IF OutOfBuffer(b.data, r.reads) # {} /\ ub = "crash"
                THEN /\ pc' = "done"
                     /\ status' = "crash"
                     /\ UNCHANGED <<s, out, auxStatus>>
              ELSE IF r.kind = "cont"
                THEN /\ pc' = "aux"
                     /\ s' = r.s
                     /\ out' = [out EXCEPT !.info = Emit(out.info, r.emit)]
                     /\ UNCHANGED <<status, auxStatus>>
              ELSE /\ pc' = "auxret"
                   /\ auxStatus' = "DataLoss"
                   /\ UNCHANGED <<s, out, status>>
  /\ UNCHANGED <<b, opt, counter, fields, truncN>>
  /\ UNCHANGED <<iterVars, readerVars>>

\* The loop condition fails: everything parsed, ParseAuxFields returns OK.
ParseAuxEnd ==
  /\ pc = "aux"
  /\ Len(b.data) - s < 4
  /\ pc' = "auxret"
  /\ auxStatus' = "OK"
  /\ UNCHANGED <<b, opt, s, out, status, counter, reads, infoPrev, nIter,
                 fields, truncN>>
  /\ UNCHANGED <<iterVars, readerVars>>

\* A converter that returns the decoder's status.
ConvertReturn_PropagatingAuxStatus ==
  /\ pc = "auxret"
  /\ counter' = IF auxStatus # "OK" THEN counter + 1 ELSE counter
  /\ status' = auxStatus
  /\ pc' = "done"
  /\ UNCHANGED <<b, opt, s, out, auxStatus, reads, infoPrev, nIter, fields,
                 truncN>>
  /\ UNCHANGED <<iterVars, readerVars>>

\* ConvertToPb after ParseAuxFields returned: a failure is logged (once)
\* and the conversion returns OK.
ConvertReturn ==
  /\ pc = "auxret"
  /\ counter' = IF auxStatus # "OK" THEN counter + 1 ELSE counter
  /\ status' = "OK"
  /\ pc' = "done"
  /\ UNCHANGED <<b, opt, s, out, auxStatus, reads, infoPrev, nIter, fields,
                 truncN>>
  /\ UNCHANGED <<iterVars, readerVars>>

ConvNext == ConvertToPb \/ ParseAuxStep \/ ParseAuxEnd \/ ConvertReturn

\* Records for the decoder: every aux stream behind every body.
AuxFlags == {BAM_FPAIRED + BAM_FREAD1}
AuxRecords ==
  {[b |-> MakeRecord(body, flag, 0, 1, a.aux), truncN |-> a.truncN,
    fields |-> a.fields] :
     body \in Bodies, flag \in AuxFlags, a \in AuxStreams}

InitAux == ConvInit(AuxRecords, {"PARSE_ALL_AUX_FIELDS"})
SpecAux == InitAux /\ [][ConvNext]_vars

\* Records for the converter: every combination of the flags ConvertToPb
\* branches on (and the remaining flag bits all clear or all set), every
\* reference index from -1 to one past the header's table, for the read
\* and for its mate, behind every body, with three aux regions: empty, one
\* integer field, and a character field followed by an unknown type.
OtherFlags ==
  BAM_FPROPER_PAIR + BAM_FMREVERSE + BAM_FSECONDARY + BAM_FQCFAIL + BAM_FDUP
    + BAM_FSUPPLEMENTARY
ConvFlags ==
  {p * BAM_FPAIRED + u * BAM_FUNMAP + m * BAM_FMUNMAP + r * BAM_FREVERSE
     + f * BAM_FREAD1 + o * OtherFlags :
   p \in {0, 1}, u \in {0, 1}, m \in {0, 1}, r \in {0, 1}, f \in {0, 1},
   o \in {0, 1}}
ConvAux ==
  { <<>>,
    <<Ch["X"], Ch["1"], Ch["i"], 5, 0, 0, 0>>,
    <<Ch["X"], Ch["1"], Ch["A"], Ch["h"], Ch["Y"], Ch["1"], Ch["?"], 0>> }
ConvRecords ==
  {[b |-> MakeRecord(body, flag, tid, mtid, aux), truncN |-> 0, fields |-> <<>>] :
     body \in Bodies, flag \in ConvFlags, tid \in (-1)..NTargets,
     mtid \in (-1)..NTargets, aux \in ConvAux}

InitConv == ConvInit(ConvRecords, {"PARSE_ALL_AUX_FIELDS", "SKIP_AUX_FIELDS"})
SpecConv == InitConv /\ [][ConvNext]_vars

(***************************************************************************)
(* The iteration engine: SamIterableBase::Next and SamReader::KeepRead.    *)
(***************************************************************************)
\* ReadSatisfiesRequirements(read, options_.read_requirements()): a check
\* of the converted read alone (here: duplicates are not accepted).
ReadSatisfiesRequirements(read) == ~read.duplicate_fragment

\* One step of the sampler's seeded generator.
SamplerAdvance(g) == (5 * g + 3) % GenModulus

\* sampler_.Keep(): advances the generator once and keeps the record when
\* the value drawn falls below the fraction.
SamplerKeep(g, fraction) ==
  [keep |-> SamplerAdvance(g) < fraction, gen |-> SamplerAdvance(g)]

\* A keep-predicate that draws from the sampler before it looks at the
\* requirements.
KeepRead_SamplerFirst(read, has_req, fraction, g) ==
  IF fraction = 0
    THEN [keep |-> ~has_req \/ ReadSatisfiesRequirements(read), gen |-> g,
          called |-> FALSE]
  ELSE [keep |-> SamplerKeep(g, fraction).keep
                   /\ (~has_req \/ ReadSatisfiesRequirements(read)),
        gen |-> SamplerKeep(g, fraction).gen, called |-> TRUE]

\* SamReader::KeepRead: the requirements check, then (&&) the downsample
\* check, which calls the sampler unless the fraction is 0.0.  `called`
\* tells whether sampler_.Keep() ran.
KeepRead(read, has_req, fraction, g) ==
  IF has_req /\ ~ReadSatisfiesRequirements(read)
    THEN [keep |-> FALSE, gen |-> g, called |-> FALSE]
  ELSE IF fraction = 0
    THEN [keep |-> TRUE, gen |-> g, called |-> FALSE]
  ELSE [keep |-> SamplerKeep(g, fraction).keep,
        gen |-> SamplerKeep(g, fraction).gen, called |-> TRUE]

\* The results of Next() that yield no record.
StopResults == {"false", "DataLoss", "FailedPrecondition"}

\* Next() is entered: TF_RETURN_IF_ERROR(CheckIsAlive()).
NextCall ==
  /\ itpc = "idle"
  /\ afterStop' = (afterStop \/ result \in StopResults)
  /\ IF alive
       THEN itpc' = "pull" /\ result' = "running"
       ELSE itpc' = "idle" /\ result' = "FailedPrecondition"
  /\ lastPull' = "none"
  /\ UNCHANGED <<cursor, alive, has_read_requirements, downsample_fraction,
                 seed, gen, pulled, yielded, decisions, nKeepCalls>>
  /\ UNCHANGED <<convVars, readerVars>>

\* A raw item as next_sam_record() delivers it: a code and, for a code
\* >= 0, the record read into bam1_.
EndOfStream == [code |-> -1]

\* The source has signalled its end: sam_read1 at the end of the file
\* and sam_itr_next on a finished iterator go on returning -1.
AtEndOfStream(c) == c = <<>> \/ Head(c).code = -1

\* The top of the do-loop: next_sam_record() and the tests of its code; a
\* record goes on into ConvertToPb(header_, bam1_, options, out).
NextPull ==
  /\ itpc = "pull"
  /\ LET item == IF cursor = <<>> THEN EndOfStream ELSE Head(cursor)
     IN  /\ lastPull' = IF item.code = -1 THEN "eos"
                         ELSE IF item.code < -1 THEN "error" ELSE "record"
         /\ IF item.code = -1
              THEN /\ result' = "false"
                   /\ itpc' = "idle"
                   /\ UNCHANGED convVars
            ELSE IF item.code < -1
              THEN /\ result' = "DataLoss"
                   /\ itpc' = "idle"
                   /\ UNCHANGED convVars
            ELSE /\ result' = result
                 /\ itpc' = "convert"
                 /\ b' = item.b
                 /\ fields' = item.fields
                 /\ truncN' = item.truncN
                 /\ pc' = "start"
                 /\ s' = 0
                 /\ status' = "none"
                 /\ auxStatus' = "none"
                 /\ reads' = {}
                 /\ infoPrev' = <<>>
                 /\ nIter' = 0
                 /\ UNCHANGED <<opt, out, counter>>
  /\ cursor' = IF AtEndOfStream(cursor) THEN cursor ELSE Tail(cursor)
  /\ pulled' = IF AtEndOfStream(cursor) THEN pulled
               ELSE Append(pulled, Head(cursor))
  /\ UNCHANGED <<alive, has_read_requirements, downsample_fraction, seed, gen,
                 yielded, decisions, nKeepCalls, afterStop>>
  /\ UNCHANGED readerVars

\* A Next() that reports "no more records" when it meets a rejected
\* record instead of pulling the next one.
NextConverted_StoppingAtRejected ==
  /\ itpc = "convert"
  /\ pc = "done"
  /\ IF status = "crash"
       THEN /\ itpc' = "crashed"
            /\ result' = "crash"
            /\ UNCHANGED <<gen, yielded, decisions, nKeepCalls>>
     ELSE IF status # "OK"
       THEN /\ itpc' = "idle"
            /\ result' = status
            /\ UNCHANGED <<gen, yielded, decisions, nKeepCalls>>
     ELSE LET k == KeepRead(out, has_read_requirements, downsample_fraction, gen)
          IN  /\ gen' = k.gen
              /\ nKeepCalls' = IF k.called THEN nKeepCalls + 1 ELSE nKeepCalls
              /\ decisions' = Append(decisions, k.keep)
              /\ itpc' = "idle"
              /\ IF k.keep
                   THEN /\ result' = "true"
                        /\ yielded' = Append(yielded, Len(pulled))
                   ELSE /\ result' = "false"
                        /\ yielded' = yielded
  /\ UNCHANGED <<cursor, alive, has_read_requirements, downsample_fraction,
                 seed, lastPull, pulled, afterStop>>
  /\ UNCHANGED <<convVars, readerVars>>

\* ConvertToPb has returned: TF_RETURN_IF_ERROR, then the loop condition
\* `while (!sam_reader->KeepRead(*out))` and `return true`.
NextConverted ==
  /\ itpc = "convert"
  /\ pc = "done"
  /\ IF status = "crash"
       THEN /\ itpc' = "crashed"
            /\ result' = "crash"
            /\ UNCHANGED <<gen, yielded, decisions, nKeepCalls>>
     ELSE IF status # "OK"
       THEN /\ itpc' = "idle"
            /\ result' = status
            /\ UNCHANGED <<gen, yielded, decisions, nKeepCalls>>
     ELSE LET k == KeepRead(out, has_read_requirements, downsample_fraction, gen)
          IN  /\ gen' = k.gen
              /\ nKeepCalls' = IF k.called THEN nKeepCalls + 1 ELSE nKeepCalls
              /\ decisions' = Append(decisions, k.keep)
              /\ IF k.keep
                   THEN /\ itpc' = "idle"
                        /\ result' = "true"
                        /\ yielded' = Append(yielded, Len(pulled))
                   ELSE /\ itpc' = "pull"
                        /\ result' = result
                        /\ yielded' = yielded
  /\ UNCHANGED <<cursor, alive, has_read_requirements, downsample_fraction,
                 seed, lastPull, pulled, afterStop>>
  /\ UNCHANGED <<convVars, readerVars>>

\* The reader is destroyed between two calls: the iterable is no longer
\* alive.
ReaderGone ==
  /\ itpc = "idle"
  /\ alive
  /\ alive' = FALSE
  /\ UNCHANGED <<itpc, cursor, has_read_requirements, downsample_fraction,
                 seed, gen, result, lastPull, pulled, yielded, decisions,
                 nKeepCalls, afterStop>>
  /\ UNCHANGED <<convVars, readerVars>>

IterNext == NextCall \/ NextPull \/ NextConverted \/ ReaderGone \/ ConvNext

\* The raw records of the cursors: a plain record with one integer field,
\* a duplicate, a paired record whose mate is mapped with no mate
\* reference, and a paired record whose second aux field is malformed.
PlainBody == [l_qname |-> 2, n_cigar |-> 0, l_qseq |-> 0, prefix |-> <<Ch["r"], 0>>]
IterRecords ==
  { MakeRecord(PlainBody, 0, 0, -1, <<Ch["X"], Ch["1"], Ch["i"], 5, 0, 0, 0>>),
    MakeRecord(PlainBody, BAM_FDUP, 0, -1, <<>>),
    MakeRecord(PlainBody, BAM_FPAIRED + BAM_FREAD1, 0, -1, <<>>),
    MakeRecord(PlainBody, BAM_FPAIRED + BAM_FREVERSE, 1, 0,
               <<Ch["X"], Ch["1"], Ch["A"], Ch["h"], Ch["X"], Ch["1"], Ch["?"], 0>>) }

IterItems ==
  {[code |-> c, b |-> MakeRecord(PlainBody, 0, -1, -1, <<>>), fields |-> <<>>,
    truncN |-> 0] : c \in {-1, -2}}
  \cup {[code |-> 0, b |-> r, fields |-> <<>>, truncN |-> 0] : r \in IterRecords}

Cursors == UNION {[1..n -> IterItems] : n \in 0..MaxCursor}

InitIter ==
  /\ NoReader
  /\ itpc = "idle"
  /\ cursor \in Cursors
  /\ alive = TRUE
  /\ has_read_requirements \in BOOLEAN
  /\ downsample_fraction \in {0, GenModulus \div 2, GenModulus}
  /\ seed \in {0, 1}
  /\ gen = seed
  /\ result = "none"
  /\ lastPull = "none"
  /\ pulled = <<>>
  /\ yielded = <<>>
  /\ decisions = <<>>
  /\ nKeepCalls = 0
  /\ afterStop = FALSE
  /\ b = MakeRecord(PlainBody, 0, -1, -1, <<>>)
  /\ fields = <<>>
  /\ truncN = 0
  /\ opt = "PARSE_ALL_AUX_FIELDS"
  /\ pc = "idle"
  /\ s = 0
  /\ out = EmptyRead
  /\ status = "none"
  /\ auxStatus = "none"
  /\ counter = 0
  /\ reads = {}
  /\ infoPrev = <<>>
  /\ nIter = 0

SpecIter == InitIter /\ [][IterNext]_vars

(***************************************************************************)
(* The reader: FromFile, Iterate, Query, Close and the destructor.         *)
(***************************************************************************)
Kinds == {"fp", "header", "idx"}

\* FileTypeIsIndexable(fp->format)
FileTypeIsIndexable(format) == format \in {"bam", "cram"}

\* HasIndex(): an index was loaded and not yet destroyed.
HasIndex(idx) == idx # 0

\* SamReader::FromFile: the status it returns and the handles it has
\* acquired from htslib by then (1: acquired).
FromFileOutcome(modeOk, openOk, blockSize, setOk, hdrOk, format, idxLoads, refGiven, cramOk) ==
  LET idx == IF FileTypeIsIndexable(format) /\ idxLoads THEN 1 ELSE 0
      setOptOk == setOk
      headerOk == hdrOk
      cramOptOk == cramOk
  IN  IF ~modeOk
        THEN [status |-> "InvalidArgument", fp |-> 0, header |-> 0, idx |-> 0]
      ELSE IF ~openOk
        THEN [status |-> "NotFound", fp |-> 0, header |-> 0, idx |-> 0]
      ELSE IF blockSize > 0 /\ ~setOptOk
        THEN [status |-> "Unknown", fp |-> 1, header |-> 0, idx |-> 0]
      ELSE IF ~headerOk
        THEN [status |-> "Unknown", fp |-> 1, header |-> 0, idx |-> 0]
      ELSE IF format = "cram" /\ refGiven /\ ~cramOptOk
        THEN [status |-> "Unknown", fp |-> 1, header |-> 1, idx |-> idx]
      ELSE [status |-> "OK", fp |-> 1, header |-> 1, idx |-> idx]

Op(name, st, nameKnown, intervalOk) ==
  [op |-> name, status |-> st, wasClosed |-> (reader = "live" /\ fp_ = 0),
   fpBefore |-> fp_, idxBefore |-> idx_, iterablesBefore |-> nIterables,
   nameKnown |-> nameKnown, intervalOk |-> intervalOk,
   afterFailedQuery |-> (lastOp.op = "Query" /\ lastOp.status # "OK"
                           /\ lastOp.fpBefore # 0)]

FromFile ==
  /\ ~crashed
  /\ reader # "live"
  /\ nOpens < MaxOpens
  /\ \E modeOk, openOk, setOptOk, headerOk, idxLoads, refGiven, cramOptOk \in BOOLEAN,
        blockSize \in {0, 1}, format \in {"sam", "bam", "cram"} :
       LET r == FromFileOutcome(modeOk, openOk, blockSize, setOptOk, headerOk,
                                format, idxLoads, refGiven, cramOptOk)
           got == [k \in Kinds |-> IF r[k] = 1 THEN "open" ELSE "none"]
       IN  /\ handles' = got
           /\ released' = [k \in Kinds |-> 0]
           /\ IF r.status = "OK"
                THEN /\ reader' = "live"
                     /\ fp_' = r.fp
                     /\ header_' = r.header
                     /\ idx_' = r.idx
                     /\ leaked' = leaked
                ELSE /\ reader' = "none"
                     /\ fp_' = 0
                     /\ header_' = 0
                     /\ idx_' = 0
                     /\ leaked' = leaked + r.fp + r.header + r.idx
           /\ lastOp' = Op("FromFile", r.status, FALSE, FALSE)
  /\ nOpens' = nOpens + 1
  /\ UNCHANGED <<badCalls, nIterables, crashed>>
  /\ UNCHANGED <<convVars, iterVars>>

\* SamReader::Iterate
Iterate ==
  /\ ~crashed
  /\ reader = "live"
  /\ nIterables < MaxIterables
  /\ IF fp_ = 0
       THEN /\ lastOp' = Op("Iterate", "FailedPrecondition", FALSE, FALSE)
            /\ nIterables' = nIterables
       ELSE /\ lastOp' = Op("Iterate", "OK", FALSE, FALSE)
            /\ nIterables' = nIterables + 1
  /\ UNCHANGED <<reader, fp_, header_, idx_, handles, released, badCalls,
                 leaked, nOpens, crashed>>
  /\ UNCHANGED <<convVars, iterVars>>

\* A Query that does not look for the index.
QueryStatus_WithoutIndexCheck(fp, idx, nameKnown, intervalOk) ==
  IF fp = 0 THEN "FailedPrecondition"
  ELSE IF ~nameKnown THEN "NotFound"
  ELSE IF ~intervalOk THEN "NotFound"
  ELSE "OK"

\* The status SamReader::Query returns: nameKnown tells whether
\* bam_name2id finds the region's reference name, intervalOk whether
\* sam_itr_queryi returns an iterator.
QueryStatus(fp, idx, nameKnown, intervalOk) ==
  IF fp = 0 THEN "FailedPrecondition"
  ELSE IF ~HasIndex(idx) THEN "FailedPrecondition"
  ELSE IF ~nameKnown THEN "NotFound"
  ELSE IF ~intervalOk THEN "NotFound"
  ELSE "OK"

\* SamReader::Query
Query ==
  /\ ~crashed
  /\ reader = "live"
  /\ nIterables < MaxIterables
  /\ \E nameKnown, intervalOk \in BOOLEAN :
       LET st == QueryStatus(fp_, idx_, nameKnown, intervalOk)
       IN  /\ lastOp' = Op("Query", st, nameKnown, intervalOk)
           /\ nIterables' = IF st = "OK" THEN nIterables + 1 ELSE nIterables
  /\ UNCHANGED <<reader, fp_, header_, idx_, handles, released, badCalls,
                 leaked, nOpens, crashed>>
  /\ UNCHANGED <<convVars, iterVars>>

\* SamReader::Close.  hts_close(nullptr) dereferences the null handle:
\* the process dies (ub = "crash") or the call returns some value
\* (retval); on a file it returns its own result retval.
CloseOutcome(ub, retval) ==
  LET h1 == IF HasIndex(idx_) THEN [handles EXCEPT !["idx"] = "released"]
            ELSE handles
      r1 == IF HasIndex(idx_) THEN [released EXCEPT !["idx"] = @ + 1]
            ELSE released
      h2 == IF header_ # 0 THEN [h1 EXCEPT !["header"] = "released"] ELSE h1
      r2 == IF header_ # 0 THEN [r1 EXCEPT !["header"] = @ + 1] ELSE r1
      h3 == IF fp_ # 0 THEN [h2 EXCEPT !["fp"] = "released"] ELSE h2
      r3 == IF fp_ # 0 THEN [r2 EXCEPT !["fp"] = @ + 1] ELSE r2
      bad == (IF header_ = 0 \/ handles["header"] # "open"
              THEN {"bam_hdr_destroy"} ELSE {})
             \cup (IF fp_ = 0 \/ handles["fp"] # "open"
                   THEN {"hts_close"} ELSE {})
  IN  [handles |-> h3, released |-> r3, badCalls |-> badCalls \cup bad,
       status |-> IF fp_ = 0 /\ ub = "crash" THEN "crash"
                  ELSE IF retval < 0 THEN "Internal" ELSE "OK"]

Close ==
  /\ ~crashed
  /\ reader = "live"
  /\ \E ub \in UBOutcomes, retval \in {0, -1} :
       LET r == CloseOutcome(ub, retval)
       IN  /\ handles' = r.handles
           /\ released' = r.released
           /\ badCalls' = r.badCalls
           /\ crashed' = (r.status = "crash")
           /\ lastOp' = Op("Close", r.status, FALSE, FALSE)
  /\ idx_' = 0
  /\ header_' = 0
  /\ fp_' = 0
  /\ UNCHANGED <<reader, leaked, nOpens, nIterables>>
  /\ UNCHANGED <<convVars, iterVars>>

\* SamReader::~SamReader: TF_CHECK_OK(Close()) when the file is still open.
Destroy ==
  /\ ~crashed
  /\ reader = "live"
  /\ IF fp_ # 0
       THEN \E ub \in UBOutcomes, retval \in {0, -1} :
              LET r == CloseOutcome(ub, retval)
              IN  /\ handles' = r.handles
                  /\ released' = r.released
                  /\ badCalls' = r.badCalls
                  /\ crashed' = (r.status # "OK")
                  /\ lastOp' = Op("destroy", r.status, FALSE, FALSE)
       ELSE /\ lastOp' = Op("destroy", "OK", FALSE, FALSE)
            /\ UNCHANGED <<handles, released, badCalls, crashed>>
  /\ reader' = "destroyed"
  /\ idx_' = 0
  /\ header_' = 0
  /\ fp_' = 0
  /\ UNCHANGED <<leaked, nOpens, nIterables>>
  /\ UNCHANGED <<convVars, iterVars>>

ReaderNext == FromFile \/ Iterate \/ Query \/ Close \/ Destroy

InitReader ==
  /\ NoReader
  /\ NoIterable
  /\ b = MakeRecord(PlainBody, 0, -1, -1, <<>>)
  /\ fields = <<>>
  /\ truncN = 0
  /\ opt = "PARSE_ALL_AUX_FIELDS"
  /\ pc = "idle"
  /\ s = 0
  /\ out = EmptyRead
  /\ status = "none"
  /\ auxStatus = "none"
  /\ counter = 0
  /\ reads = {}
  /\ infoPrev = <<>>
  /\ nIter = 0

SpecReader == InitReader /\ [][ReaderNext]_vars

(***************************************************************************)
(* Properties of the aux-field decoder.                                    *)
(***************************************************************************)
\* C1: every byte ParseAuxFields reads lies inside [aux start, end of the
\* record's data), whatever the tag, type, sub-type or array count.
C1_ReadsInsideAuxRegion ==
  reads \subseteq (AuxOff(b)..(Len(b.data) - 1))

\* C2: a well-formed stream whose last field misses N > 0 of its required
\* trailing bytes makes ParseAuxFields return DataLoss, however many bytes
\* remain.
C2_TruncatedIsDataLoss ==
  (truncN > 0 /\ auxStatus # "none") => auxStatus = "DataLoss"

\* The map holding the values of the first k fields the region was
\* written from.
RECURSIVE ExpectedInfo(_, _)
ExpectedInfo(fs, k) ==
  IF k = 0 THEN <<>> ELSE Emit(ExpectedInfo(fs, k - 1), fs[k].emit)

\* The message ConvertToPb builds for the same record with an empty aux
\* region.
WithoutAux(r) == [r EXCEPT !.data = SubSeq(r.data, 1, AuxOff(r))]

\* C7: when ParseAuxFields fails at the k-th field, ConvertToPb still
\* returns OK, the aux map holds exactly the values of fields 1..k-1 (of
\* the A, integer, float and Z fields among them) and nothing of field k,
\* and the other fields are those of the record with an empty aux region.
C7_AuxFailureKeepsRecord ==
  (pc = "done" /\ auxStatus = "DataLoss") =>
    /\ status = "OK"
    /\ out.info = infoPrev
    /\ [out EXCEPT !.info = <<>>] = ConvertHead(Header, WithoutAux(b), "garbage").out
    /\ (nIter <= Len(fields) /\ \A i \in 1..(nIter - 1) : fields[i].wf)
         => out.info = ExpectedInfo(fields, nIter - 1)

\* C7 witness: a conversion finished after the decoder failed at a second
\* field, with the first field's value in the map.
C7_Witness ==
  /\ pc = "done"
  /\ auxStatus = "DataLoss"
  /\ nIter = 2
  /\ Len(fields) = 2
  /\ fields[1].wf
  /\ out.info # <<>>

(***************************************************************************)
(* Properties of the record converter.                                     *)
(***************************************************************************)
\* ConvertToPb has returned OK.
Converted == pc = "done" /\ status = "OK"

\* C3: in every successfully converted record the alignment is present
\* iff the unmapped flag is clear, and next_mate_position is present iff
\* the paired flag is set and the mate-unmapped flag is clear.
C3_PresenceFollowsFlags ==
  Converted =>
    /\ (out.alignment # <<>>) <=> ~HasFlag(b.flag, BAM_FUNMAP)
    /\ (out.next_mate_position # <<>>) <=>
         (HasFlag(b.flag, BAM_FPAIRED) /\ ~HasFlag(b.flag, BAM_FMUNMAP))

\* C3 witness: a converted paired record with a mapped mate and an
\* alignment, and its mate position set.
C3_Witness ==
  /\ Converted
  /\ HasFlag(b.flag, BAM_FPAIRED)
  /\ ~HasFlag(b.flag, BAM_FMUNMAP)
  /\ ~HasFlag(b.flag, BAM_FUNMAP)
  /\ out.alignment # <<>>
  /\ out.next_mate_position # <<>>

\* C8 as stated: a converted record with the unmapped flag clear has a
\* mapping quality and a Position, whatever its reference index; one with
\* the flag set has no Position.
C8_MappedHasPosition ==
  Converted =>
    IF ~HasFlag(b.flag, BAM_FUNMAP)
    THEN /\ out.alignment # <<>>
         /\ out.alignment[1].mapping_quality = b.qual
         /\ out.alignment[1].position # <<>>
    ELSE out.alignment = <<>>

\* C8 amended: a converted record with the unmapped flag clear has a
\* mapping quality; it has a Position exactly when its reference index is
\* not negative, and for an index inside the header's table that Position
\* carries the table's name, the record's offset and its strand.  A record
\* with the unmapped flag set has no alignment and so no Position.
C8_PositionIffReferenceIndex ==
  Converted =>
    IF ~HasFlag(b.flag, BAM_FUNMAP)
    THEN /\ out.alignment # <<>>
         /\ out.alignment[1].mapping_quality = b.qual
         /\ (out.alignment[1].position # <<>>) <=> (b.tid >= 0)
         /\ (b.tid >= 0 /\ b.tid < NTargets) =>
              out.alignment[1].position[1] =
                [reference_name |-> Header.target_name[b.tid + 1],
                 position |-> b.pos,
                 reverse_strand |-> HasFlag(b.flag, BAM_FREVERSE)]
    ELSE out.alignment = <<>>

\* C8 witness: a converted record with the unmapped flag clear and a
\* negative reference index: it has an alignment without a Position.
C8_Witness ==
  /\ Converted
  /\ ~HasFlag(b.flag, BAM_FUNMAP)
  /\ b.tid < 0
  /\ out.alignment # <<>>
  /\ out.alignment[1].position = <<>>

(***************************************************************************)
(* Properties of the iteration engine.                                     *)
(***************************************************************************)
\* A paired record whose mate is flagged mapped with no mate reference.
MateMappedWithoutReference(r) ==
  HasFlag(r.flag, BAM_FPAIRED) /\ ~HasFlag(r.flag, BAM_FMUNMAP) /\ r.mtid < 0

\* C4: a paired record with the mate-unmapped flag clear and a negative
\* mate reference index makes ConvertToPb return DataLoss, and the Next()
\* that pulled it returns that failure: the record is never yielded.
C4_MateWithoutReferenceFails ==
  /\ (pc = "done" /\ status # "crash" /\ MateMappedWithoutReference(b))
       => status = "DataLoss"
  /\ (itpc = "idle" /\ lastPull = "record" /\ MateMappedWithoutReference(b))
       => result = "DataLoss"
  /\ \A i \in 1..Len(yielded) : ~MateMappedWithoutReference(pulled[yielded[i]].b)

\* C4 witness: Next() has returned DataLoss for such a record.
C4_Witness ==
  /\ itpc = "idle"
  /\ lastPull = "record"
  /\ MateMappedWithoutReference(b)
  /\ result = "DataLoss"

\* The positions of the records Next() is to yield from the raw items
\* `items` (from position i on, generator at g): the kept records in
\* cursor order, up to the first end of stream, cursor error or failed
\* conversion.
RECURSIVE KeptUntilStop(_, _, _)
KeptUntilStop(items, i, g) ==
  IF i > Len(items) \/ items[i].code < 0
       \/ ConvertHead(Header, items[i].b, "garbage").status # "OK"
    THEN <<>>
  ELSE LET k == KeepRead(ConvertHead(Header, items[i].b, "garbage").out,
                         has_read_requirements, downsample_fraction, g)
       IN  (IF k.keep THEN <<i>> ELSE <<>>) \o KeptUntilStop(items, i + 1, k.gen)

\* C5: Next() returns true only with a kept record and keeps pulling
\* after a rejected one; it returns "no more records" only on the
\* cursor's end of stream, and a failure only on a cursor error, a failed
\* conversion or a reader that is gone; so up to the first Next() that
\* yields nothing, the records yielded are the kept ones in cursor order.
C5_NextYieldsKeptInOrder ==
  /\ result = "true" =>
       /\ lastPull = "record" /\ status = "OK"
       /\ ~has_read_requirements \/ ReadSatisfiesRequirements(out)
       /\ yielded # <<>> /\ yielded[Len(yielded)] = Len(pulled)
       /\ decisions # <<>> /\ decisions[Len(decisions)]
  /\ result = "false" => lastPull = "eos"
  /\ result = "DataLoss" =>
       \/ lastPull = "error"
       \/ lastPull = "record" /\ status = "DataLoss"
  /\ result = "FailedPrecondition" => ~alive
  /\ (itpc = "idle" /\ ~afterStop) => yielded = KeptUntilStop(pulled, 1, seed)

\* C5 witness: Next() yielded a record after having pulled past a
\* rejected one.
C5_Witness ==
  /\ itpc = "idle"
  /\ ~afterStop
  /\ result = "true"
  /\ Len(yielded) < Len(pulled)
  /\ FALSE \in {decisions[i] : i \in 1..Len(decisions)}

\* The reads ConvertToPb has converted so far (the one being converted
\* not counted).
ConvertedReads ==
  LET done == IF itpc = "convert" THEN SubSeq(pulled, 1, Len(pulled) - 1)
              ELSE pulled
      ok(item) == item.code >= 0
                    /\ ConvertHead(Header, item.b, "garbage").status = "OK"
      oks == SelectSeq(done, ok)
  IN  [i \in 1..Len(oks) |-> ConvertHead(Header, oks[i].b, "garbage").out]

\* The generator after n steps from g.
RECURSIVE AdvanceTimes(_, _)
AdvanceTimes(g, n) == IF n = 0 THEN g ELSE SamplerAdvance(AdvanceTimes(g, n - 1))

\* The keep/reject decisions a seed and a sequence of reads determine when
\* only the reads that meet the requirements draw from the generator.
RECURSIVE DecisionsOf(_, _, _)
DecisionsOf(rs, i, g) ==
  IF i > Len(rs) THEN <<>>
  ELSE IF has_read_requirements /\ ~ReadSatisfiesRequirements(rs[i])
    THEN <<FALSE>> \o DecisionsOf(rs, i + 1, g)
  ELSE IF downsample_fraction = 0
    THEN <<TRUE>> \o DecisionsOf(rs, i + 1, g)
  ELSE <<SamplerAdvance(g) < downsample_fraction>>
         \o DecisionsOf(rs, i + 1, SamplerAdvance(g))

\* C10 as stated: with fraction 0 the generator never advances and the
\* requirements alone decide; with a non-zero fraction it advances exactly
\* once for each converted record.
C10_OncePerConvertedRecord ==
  /\ downsample_fraction = 0 => nKeepCalls = 0
  /\ downsample_fraction # 0 => nKeepCalls = Len(ConvertedReads)

\* The converted reads that meet the read requirements (all of them when
\* no requirements are set).
MeetingRequirements ==
  LET meets(r) == ~has_read_requirements \/ ReadSatisfiesRequirements(r)
  IN  SelectSeq(ConvertedReads, meets)

\* C10 amended: with fraction 0 the keep-predicate is the requirements
\* check alone and the generator never advances; with a non-zero fraction
\* the generator advances exactly once for each converted record that
\* meets the read requirements (every converted record when none are
\* set) and not for a record that fails them; the decisions are the ones
\* the seed and the sequence of records determine.
C10_OncePerRecordMeetingRequirements ==
  /\ downsample_fraction = 0 =>
       /\ nKeepCalls = 0
       /\ gen = seed
       /\ \A i \in 1..Len(decisions) :
            decisions[i] = (~has_read_requirements
                              \/ ReadSatisfiesRequirements(ConvertedReads[i]))
  /\ downsample_fraction # 0 => nKeepCalls = Len(MeetingRequirements)
  /\ gen = AdvanceTimes(seed, nKeepCalls)
  /\ decisions = DecisionsOf(ConvertedReads, 1, seed)

\* C10 witness: with a non-zero fraction, a record that fails the
\* requirements was rejected and another one drew from the generator.
C10_Witness ==
  /\ downsample_fraction # 0
  /\ has_read_requirements
  /\ nKeepCalls >= 1
  /\ Len(MeetingRequirements) < Len(ConvertedReads)

(***************************************************************************)
(* Properties of the reader.                                               *)
(***************************************************************************)
ErrorStatuses ==
  {"FailedPrecondition", "NotFound", "Internal", "InvalidArgument", "Unknown"}

\* C6: after Close() has returned, Iterate, Query and Close return an
\* error status, nothing is reopened, no htslib function is handed a
\* released (or null) handle, and each handle is released at most once.
C6_ClosedReaderRejects ==
  /\ (lastOp.wasClosed /\ lastOp.op \in {"Iterate", "Query", "Close"})
       => lastOp.status \in ErrorStatuses
  /\ (reader = "live" /\ fp_ = 0) => \A k \in Kinds : handles[k] # "open"
  /\ badCalls = {}
  /\ \A k \in Kinds : released[k] <= 1

\* C9: on an open reader Query fails with FailedPrecondition when no index
\* is loaded and with NotFound when the reference name is unknown or the
\* index rejects the interval; a failed Query creates no iterable and
\* changes no handle, and an Iterate() right after it succeeds.
C9_FailedQueryLeavesReaderUsable ==
  /\ (lastOp.op = "Query" /\ lastOp.fpBefore # 0) =>
       /\ lastOp.idxBefore = 0 => lastOp.status = "FailedPrecondition"
       /\ (lastOp.idxBefore # 0 /\ ~lastOp.nameKnown)
            => lastOp.status = "NotFound"
       /\ (lastOp.idxBefore # 0 /\ lastOp.nameKnown /\ ~lastOp.intervalOk)
            => lastOp.status = "NotFound"
       /\ lastOp.status # "OK" =>
            /\ nIterables = lastOp.iterablesBefore
            /\ fp_ = lastOp.fpBefore
            /\ idx_ = lastOp.idxBefore
            /\ header_ # 0
            /\ handles["fp"] = "open" /\ handles["header"] = "open"
            /\ handles["idx"] = (IF idx_ # 0 THEN "open" ELSE "none")
            /\ \A k \in Kinds : released[k] = 0
  /\ (lastOp.op = "Iterate" /\ lastOp.afterFailedQuery) =>
       /\ lastOp.status = "OK"
       /\ nIterables = lastOp.iterablesBefore + 1

\* C9 witness: an Iterate() that succeeded right after a Query failed for
\* want of an index.
C9_Witness ==
  /\ lastOp.op = "Iterate"
  /\ lastOp.afterFailedQuery
  /\ lastOp.status = "OK"
  /\ idx_ = 0

\* C11: whenever FromFile returns an error the reader is not partially
\* initialized: an unsupported min_base_quality mode is reported before
\* any file is opened, and after every other failure no file, header or
\* index handle acquired during the call is left open.
C11_FailedOpenLeavesNothingOpen ==
  (lastOp.op = "FromFile" /\ lastOp.status # "OK") =>
    /\ lastOp.status = "InvalidArgument" => \A k \in Kinds : handles[k] = "none"
    /\ \A k \in Kinds : handles[k] # "open"
    /\ leaked = 0

(***************************************************************************)
(* Terminal states of an iterable.                                         *)
(***************************************************************************)
\* C12: Exhausted and Failed are terminal: once a Next() on an iterable
\* has returned "no more records" or a failure, no later Next() on that
\* iterable yields a record.
C12_StoppedIterableYieldsNothing ==
  afterStop => result # "true"

(***************************************************************************)
(* The B field and the progress of the decoding loop.                      *)
(***************************************************************************)
\* The loop body is entered with the cursor inside the aux region at a
\* field whose type byte is B.
AtArrayField ==
  /\ pc = "aux"
  /\ s >= AuxOff(b)
  /\ Len(b.data) - s >= 4
  /\ b.data[s + 3] = Ch["B"]

\* The cursor after a B field at s whose count field is read as an
\* unsigned 32-bit number: s + 3 + 1 + 4 + count * element_size, cursors
\* far past the end identified as in Clamp (a count of 65536 or more is
\* far past the end of every buffer here).
CursorPastArray ==
  LET size == HtslibAuxSize(b.data[s + 4])
      low == b.data[s + 5] + 256 * b.data[s + 6]
  IN  IF b.data[s + 7] > 0 \/ b.data[s + 8] > 0
        THEN Len(b.data) + FarLimit
      ELSE Clamp(b.data, s + 8 + low * size)

\* C13: a B field makes ParseAuxFields fail exactly when its sub-type is
\* not one of c, C, s, S, i, I, f or its 4-byte count does not fit in the
\* rest of the buffer; otherwise, for every count from 0 to 2^32-1, the
\* iteration emits nothing and leaves the cursor 1 + 4 + count *
\* element_size bytes past the type byte.
C13_ArrayFieldSkipped ==
  [][AtArrayField =>
       IF \/ b.data[s + 4] \notin {Ch["c"], Ch["C"], Ch["s"], Ch["S"],
                                   Ch["i"], Ch["I"], Ch["f"]}
          \/ Len(b.data) - (s + 4) < 4
       THEN pc' = "auxret" /\ auxStatus' = "DataLoss"
       ELSE /\ pc' = "aux"
            /\ s' = CursorPastArray
            /\ out'.info = out.info]_vars

\* C14: every iteration of the decoding loop either returns or leaves the
\* cursor strictly greater than it found it (so that the loop ends after
\* at most buffer length / 3 iterations and decoding is total).
C14_EveryIterationAdvances ==
  [][(pc = "aux" /\ pc' = "aux") => s' > s]_vars

=============================================================================
